---- MODULE Spec2Model ----
(***************************************************************************)
(* Model of src/main.py: the Binance Futures 15m scanner.                  *)
(*                                                                         *)
(* The indicator functions (sma, true_range, bollinger_bands, adx), the    *)
(* crossover rule (triple_sma_cross), the admission filters                *)
(* (analyze_symbol) and the polling loop with its signal handler (main,    *)
(* shutdown_handler) are translated from the source.                       *)
(*                                                                         *)
(* Numbers.  Candle fields are integers (prices in ticks).  Every derived  *)
(* float is an exact value of one of three kinds, as IEEE arithmetic       *)
(* (numpy/pandas) produces them: "nan", "inf" (n is the sign) or "num"     *)
(* (the fraction n/d in lowest terms, d > 0).  Rounding is not modelled.   *)
(***************************************************************************)
EXTENDS Integers, Sequences, FiniteSets, TLC

\* ------------------------------------------------------------------------
\* Exact arithmetic with NaN and infinities
\* ------------------------------------------------------------------------

Abs(x) == IF x < 0 THEN -x ELSE x

Sgn(x) == IF x < 0 THEN -1 ELSE IF x > 0 THEN 1 ELSE 0

RECURSIVE GCD(_, _)
GCD(a, b) == IF b = 0 THEN a ELSE GCD(b, a % b)

NaN == [k |-> "nan", n |-> 0, d |-> 1]

Inf(sg) == [k |-> "inf", n |-> sg, d |-> 1]

\* The fraction n/d, d # 0, in lowest terms with a positive denominator.
Num(n, d) ==
    LET g == GCD(Abs(n), Abs(d))
        s == IF d < 0 THEN -1 ELSE 1
    IN  [k |-> "num", n |-> s * (n \div g), d |-> Abs(d) \div g]

Zero == Num(0, 1)

IsNaN(a) == a.k = "nan"

IsNum(a) == a.k = "num"

FNeg(a) == IF a.k = "nan" THEN a ELSE [a EXCEPT !.n = -a.n]

FAbs(a) == IF a.k = "nan" THEN a ELSE [a EXCEPT !.n = Abs(a.n)]

FAdd(a, b) ==
    IF a.k = "nan" \/ b.k = "nan" THEN NaN
    ELSE IF a.k = "inf" /\ b.k = "inf" THEN (IF a.n = b.n THEN a ELSE NaN)
    ELSE IF a.k = "inf" THEN a
    ELSE IF b.k = "inf" THEN b
    ELSE LET g == GCD(a.d, b.d)
         IN  Num(a.n * (b.d \div g) + b.n * (a.d \div g), (a.d \div g) * b.d)

FSub(a, b) == FAdd(a, FNeg(b))

\* c * a for an integer c > 0 (the code's "100 * ...").
FScale(c, a) ==
    IF a.k = "num" THEN Num(c * a.n, a.d) ELSE a

\* a / b as numpy divides floats: x/0 is +-inf, 0/0 and inf/inf are NaN,
\* never an exception.
FDiv(a, b) ==
    IF a.k = "nan" \/ b.k = "nan" THEN NaN
    ELSE IF a.k = "inf" /\ b.k = "inf" THEN NaN
    ELSE IF a.k = "inf" THEN Inf(IF b.n < 0 THEN -a.n ELSE a.n)
    ELSE IF b.k = "inf" THEN Zero
    ELSE IF b.n = 0 THEN (IF a.n = 0 THEN NaN ELSE Inf(Sgn(a.n)))
    ELSE LET g1 == GCD(Abs(a.n), Abs(b.n))
             g2 == GCD(a.d, b.d)
         IN  Num((a.n \div g1) * (b.d \div g2) * Sgn(b.n),
                 (a.d \div g2) * (Abs(b.n) \div g1))

\* n1/d1 < n2/d2 for d1, d2 > 0, by continued fractions (no product is
\* formed, so no intermediate value leaves the integer range).
RECURSIVE FracLt(_, _, _, _)
FracLt(n1, d1, n2, d2) ==
    LET q1 == n1 \div d1
        q2 == n2 \div d2
        r1 == n1 - q1 * d1
        r2 == n2 - q2 * d2
    IN  IF q1 # q2 THEN q1 < q2
        ELSE IF r2 = 0 THEN FALSE
        ELSE IF r1 = 0 THEN TRUE
        ELSE FracLt(d2, r2, d1, r1)

\* a < b on floats: every comparison with NaN is false.
FLt(a, b) ==
    IF a.k = "nan" \/ b.k = "nan" THEN FALSE
    ELSE IF a.k = "inf" THEN a.n < 0 /\ ~(b.k = "inf" /\ b.n < 0)
    ELSE IF b.k = "inf" THEN b.n > 0
    ELSE FracLt(a.n, a.d, b.n, b.d)

FGt(a, b) == FLt(b, a)

\* a >= b on floats (false when either is NaN).
FGe(a, b) == ~IsNaN(a) /\ ~IsNaN(b) /\ ~FLt(a, b)

\* ------------------------------------------------------------------------
\* Series helpers (pandas)
\* ------------------------------------------------------------------------

\* Sum of the integers s[lo..hi].
RECURSIVE SumRange(_, _, _)
SumRange(s, lo, hi) == IF lo > hi THEN 0 ELSE s[hi] + SumRange(s, lo, hi - 1)

\* Sum of the floats s[lo..hi].
RECURSIVE FSumRange(_, _, _)
FSumRange(s, lo, hi) ==
    IF lo > hi THEN Zero ELSE FAdd(s[hi], FSumRange(s, lo, hi - 1))

\* One column of a frame as a series.
Col(df, c) == [i \in DOMAIN df |-> df[i][c]]

Max2(a, b) == IF a >= b THEN a ELSE b

\* s.iloc[-1]: the last element; raises IndexError on an empty series,
\* which the callers test before they use it.
Last(s) == s[Cardinality(DOMAIN s)]

\* ------------------------------------------------------------------------
\* Strategy parameters
\* ------------------------------------------------------------------------

BOLLINGER_PERIOD == 8

BOLLINGER_STD == 2

ADX_PERIOD == 8

\* BOLLINGER_WIDTH_MIN_PCT = 0.015, as the fraction 15/1000.
BOLLINGER_WIDTH_MIN_PCT == Num(15, 1000)

ADX_MIN == Num(15, 1)

FIXED_SYMBOLS ==
    << "BCHUSDT", "BNBUSDT", "CHZUSDT", "DOGEUSDT", "ENAUSDT", "ETHUSDT",
       "JASMYUSDT", "SOLUSDT", "UNIUSDT", "XMRUSDT", "XRPUSDT" >>

\* ------------------------------------------------------------------------
\* Indicators
\* ------------------------------------------------------------------------

\* s.rolling(p).sum() of an integer series: NaN until p values are there.
RollSum(s, p) ==
    [i \in DOMAIN s |-> IF i < p THEN NaN ELSE Num(SumRange(s, i - p + 1, i), 1)]

\* s.rolling(p).mean() of a float series: NaN until p values are there, and
\* NaN wherever the window holds a NaN.
FRollMean(s, p) ==
    [i \in DOMAIN s |->
        IF i < p THEN NaN ELSE FDiv(FSumRange(s, i - p + 1, i), Num(p, 1))]

\* def sma(s, p): return s.rolling(p).mean()
sma(s, p) ==
    [i \in DOMAIN s |-> IF i < p THEN NaN ELSE Num(SumRange(s, i - p + 1, i), p)]

\* true_range: the row-wise max of high-low, |high-prev close| and
\* |low-prev close|; max(axis=1) skips the NaN of the shifted columns in
\* the first row, which is therefore high-low.
true_range(df) ==
    [i \in DOMAIN df |->
        IF i = 1 THEN df[i].high - df[i].low
        ELSE Max2(df[i].high - df[i].low,
                  Max2(Abs(df[i].high - df[i - 1].close),
                       Abs(df[i].low - df[i - 1].close)))]

\* The width column of bollinger_bands(series), each value w carried as its
\* signed square sgn(w)*w^2 (the standard deviation is a square root; the
\* signed square is exact and ordered as w is).  With S and Q the sums of
\* the window and of its squares: ma = S/p, std^2 = (p*Q - S^2)/(p*(p-1))
\* (ddof = 1), upper - lower = 2*BOLLINGER_STD*std, width = that / ma.
bollinger_bands(series) ==
    [i \in DOMAIN series |->
        IF i < BOLLINGER_PERIOD THEN NaN
        ELSE LET p == BOLLINGER_PERIOD
                 S == SumRange(series, i - p + 1, i)
                 Q == SumRange([j \in DOMAIN series |-> series[j] * series[j]],
                               i - p + 1, i)
                 spanSq == FScale(4 * BOLLINGER_STD * BOLLINGER_STD,
                                  Num(p * Q - S * S, p * (p - 1)))
                 q == FDiv(spanSq, Num(S * S, p * p))
             IN  IF S < 0 THEN FNeg(q) ELSE q]

\* The threshold of the width filter on the same scale as the width.
WidthMinSq ==
    Num(BOLLINGER_WIDTH_MIN_PCT.n * BOLLINGER_WIDTH_MIN_PCT.n,
        BOLLINGER_WIDTH_MIN_PCT.d * BOLLINGER_WIDTH_MIN_PCT.d)

\* dx of adx(df), before the final rolling mean.
adx_dx(df) ==
    LET n == Len(df)
        tr == true_range(df)
        atr_v == [i \in 1..n |->
                    IF i < ADX_PERIOD THEN NaN
                    ELSE Num(SumRange(tr, i - ADX_PERIOD + 1, i), ADX_PERIOD)]
        \* diff(): NaN in the first row, where both where() conditions are
        \* false and the value becomes 0.
        up == [i \in 1..n |-> IF i = 1 THEN 0 ELSE df[i].high - df[i - 1].high]
        down == [i \in 1..n |-> IF i = 1 THEN 0 ELSE df[i - 1].low - df[i].low]
        plus == [i \in 1..n |->
                    IF i > 1 /\ up[i] > down[i] /\ up[i] > 0 THEN up[i] ELSE 0]
        minus == [i \in 1..n |->
                    IF i > 1 /\ down[i] > up[i] /\ down[i] > 0 THEN down[i] ELSE 0]
        psum == RollSum(plus, ADX_PERIOD)
        msum == RollSum(minus, ADX_PERIOD)
        pdi == [i \in 1..n |-> FDiv(FScale(100, psum[i]), atr_v[i])]
        mdi == [i \in 1..n |-> FDiv(FScale(100, msum[i]), atr_v[i])]
    IN  [i \in 1..n |->
            FDiv(FScale(100, FAbs(FSub(pdi[i], mdi[i]))), FAdd(pdi[i], mdi[i]))]

\* fillna(0)
fillna0(a) == IF IsNaN(a) THEN Zero ELSE a

\* adx without its final fillna(0).
adx_keeps_nan(df) == FRollMean(adx_dx(df), ADX_PERIOD)

\* def adx(df): ... return dx.rolling(ADX_PERIOD).mean().fillna(0)
adx(df) ==
    LET m == FRollMean(adx_dx(df), ADX_PERIOD)
    IN  [i \in DOMAIN df |-> fillna0(m[i])]

\* ------------------------------------------------------------------------
\* Signal logic
\* ------------------------------------------------------------------------

\* The ordering with >= for >.
DescOrEqual(a, b, c) == FGe(a, b) /\ FGe(b, c)

\* Python's chained comparison a > b > c.
Desc(a, b, c) == FGt(a, b) /\ FGt(b, c)

Asc(a, b, c) == FLt(a, b) /\ FLt(b, c)

\* The rule without its test of the prior bar: it fires on every bar on
\* which the ordering holds.
triple_sma_no_edge(df) ==
    LET c == Col(df, "close")
        s3 == sma(c, 3)
        s8 == sma(c, 8)
        s20 == sma(c, 20)
        n == Len(df)
    IN  IF n < 3 THEN "None"
        ELSE IF Desc(s3[n], s8[n], s20[n]) THEN "LONG"
        ELSE IF Asc(s3[n], s8[n], s20[n]) THEN "SHORT"
        ELSE "None"

\* def triple_sma_cross(df): "LONG", "SHORT" or "None".
triple_sma_cross(df) ==
    LET c == Col(df, "close")
        s3 == sma(c, 3)
        s8 == sma(c, 8)
        s20 == sma(c, 20)
        n == Len(df)
    IN  IF n < 3 THEN "None"
        ELSE IF Desc(s3[n], s8[n], s20[n]) /\ ~Desc(s3[n - 1], s8[n - 1], s20[n - 1])
             THEN "LONG"
        ELSE IF Asc(s3[n], s8[n], s20[n]) /\ ~Asc(s3[n - 1], s8[n - 1], s20[n - 1])
             THEN "SHORT"
        ELSE "None"

\* The outcomes of analyze_symbol: it raises, returns None, or returns the
\* signal record.
Raised == [kind |-> "raise", symbol |-> "", side |-> "None", price |-> 0, adx |-> Zero]

NoSignal == [kind |-> "none", symbol |-> "", side |-> "None", price |-> 0, adx |-> Zero]

\* No analyze_symbol call has returned for the frame in df.
Unset == [kind |-> "unset", symbol |-> "", side |-> "None", price |-> 0, adx |-> Zero]

\* analyze_symbol with an exclusive width threshold (<= for <).
analyze_symbol_exclusive(symbol, df) ==
    IF Len(df) = 0 THEN Raised
    ELSE LET width == bollinger_bands(Col(df, "close"))
             adx_v == Last(adx(df))
             cross == triple_sma_cross(df)
         IN  IF ~FGt(Last(width), WidthMinSq) /\ ~IsNaN(Last(width)) THEN NoSignal
             ELSE IF FLt(adx_v, ADX_MIN) THEN NoSignal
             ELSE IF cross = "None" THEN NoSignal
             ELSE [kind |-> "signal", symbol |-> symbol, side |-> cross,
                   price |-> Last(df).close, adx |-> adx_v]

\* analyze_symbol after its fetch returned df (lines 179-193).  adx(df).iloc[-1]
\* raises IndexError on an empty frame, before any filter is evaluated.
analyze_symbol(symbol, df) ==
    IF Len(df) = 0 THEN Raised
    ELSE LET width == bollinger_bands(Col(df, "close"))
             adx_v == Last(adx(df))
             cross == triple_sma_cross(df)
         IN  IF FLt(Last(width), WidthMinSq) THEN NoSignal
             ELSE IF FLt(adx_v, ADX_MIN) THEN NoSignal
             ELSE IF cross = "None" THEN NoSignal
             ELSE [kind |-> "signal", symbol |-> symbol, side |-> cross,
                   price |-> Last(df).close, adx |-> adx_v]

\* ------------------------------------------------------------------------
\* Market data
\* ------------------------------------------------------------------------

\* One kline row of the provider's payload; open, volume and the other
\* columns are read by no indicator.
Candle(t, h, l, c) == [open_time |-> t, high |-> h, low |-> l, close |-> c]

\* fetch_klines that returns the frame as built, the open candle included.
fetch_klines_with_open_bar(payload) == payload

\* fetch_klines after the response arrived: the frame without its last row
\* (df.iloc[:-1], the still-open candle); an empty payload stays empty.
fetch_klines(payload) ==
    IF Len(payload) = 0 THEN << >> ELSE SubSeq(payload, 1, Len(payload) - 1)

\* ------------------------------------------------------------------------
\* Bounds of the model
\* ------------------------------------------------------------------------

\* Longest payload the provider returns (the request's limit is 200; every
\* indicator at the latest index reads at most the last 21 rows).
MaxBars == 22

\* Cycles of the main loop that are explored.
MaxCycles == 2

\* Termination requests (SIGTERM or SIGINT) delivered in one run.
MaxSignals == 2

\* 15-minute bars that close during one run.
MaxBarCloses == 1

Min2(a, b) == IF a < b THEN a ELSE b

\* A candle series of n bars: the closes move by d0 a bar, and by d2 a bar
\* over the last c bars; the highs lie 1 + e*i above and the lows 1 + f*i
\* below the close of bar i.
MkSeries(n, base, d0, c, d2, e, f) ==
    [i \in 1..n |->
        LET a == Max2(n - c, 0)
            cl == base + d0 * Min2(i, a) + d2 * Max2(i - a, 0)
        IN  Candle(i, cl + 1 + e * i, cl - 1 - f * i, cl)]

\* The candle series with the given closes, highs and lows.
SeriesOf(closes, highs, lows) ==
    [i \in 1..Len(closes) |-> Candle(i, highs[i], lows[i], closes[i])]

\* start, then start plus the running sums of steps.
Running(start, steps) ==
    [i \in 1..Len(steps) + 1 |-> start + SumRange(steps, 1, i - 1)]

\* 20 bars whose Bollinger width at the last bar is exactly 0.015: the last
\* 8 closes have mean 1600 and squared deviations summing to 252.  The
\* ordering fast > medium > slow is new at the last bar and adx is 100.
WidthEdge ==
    LET closes == [i \in 1..12 |-> 1560]
                    \o << 1590, 1595, 1599, 1600, 1600, 1601, 1605, 1610 >>
    IN  SeriesOf(closes, [i \in 1..20 |-> closes[i] + 1 + i],
                 [i \in 1..20 |-> closes[i] - 1])

\* 20 bars, the closes flat at 300 and then 304, whose highs rise by ups
\* and whose lows fall by downs over the last 16 bars.
TrendSeries(ups, downs) ==
    LET closes == [i \in 1..20 |-> IF i < 20 THEN 300 ELSE 304]
        flat == << 0, 0, 0 >>
    IN  SeriesOf(closes, Running(320, flat \o ups \o ups),
                 Running(280, flat \o [i \in 1..8 |-> -downs[i]]
                                   \o [i \in 1..8 |-> -downs[i]]))

\* adx at the last bar is exactly 15: every window of 8 bars has +DM 23
\* and -DM 17, so every dx is 100 * 6 / 40.
AdxEdge ==
    TrendSeries(<< 6, 6, 6, 5, 0, 0, 0, 0 >>, << 0, 0, 0, 0, 5, 4, 4, 4 >>)

\* adx at the last bar is 10: +DM 22 and -DM 18 in every window.
AdxBelow ==
    TrendSeries(<< 6, 6, 5, 5, 0, 0, 0, 0 >>, << 0, 0, 0, 0, 5, 5, 4, 4 >>)

\* 20 bars that closed at 0 with rising highs: the midline of the bands is
\* zero, the width 0/0.
ZeroCloses ==
    SeriesOf([i \in 1..20 |-> 0], [i \in 1..20 |-> i], [i \in 1..20 |-> 0])

\* 20 bars of a halted instrument: every price is 300, so the true range
\* and with it the average true range is zero.
Halted ==
    SeriesOf([i \in 1..20 |-> 300], [i \in 1..20 |-> 300], [i \in 1..20 |-> 300])

\* 17 bars: the high rises at bar 2, stays for the 8 bars 3..10 and rises
\* by 1 at each of the bars 11..17.  plusDI + minusDI is zero at bar 10
\* only, and dx is 100 at each of the bars 11..17.
OneStall ==
    SeriesOf([i \in 1..17 |-> 300],
             Running(320, << 1 >> \o [i \in 1..8 |-> 0] \o [i \in 1..7 |-> 1]),
             [i \in 1..17 |-> 280])

\* The frames analyze_symbol is checked on as a function: every shape of
\* MkSeries up to MaxBars bars, and the six series above.
PureInputs ==
    { MkSeries(n, 300, d0, c, d2, e, f) :
        n \in 0..MaxBars, d0 \in {-1, 0, 1}, c \in 0..2,
        d2 \in {-90, -4, -3, 0, 3, 4, 90}, e \in {0, 1}, f \in {0, 1} }
    \cup { WidthEdge, AdxEdge, AdxBelow, ZeroCloses, Halted, OneStall }

\* The markets of the loop model: what each instrument's history looks
\* like.  "quiet": no instrument moves.  "breakout": after 19 flat bars the
\* second instrument rises and the fifth falls, 4 ticks a bar.  "listing":
\* as "breakout", and the third instrument was listed a moment ago, so that
\* the provider has only its open bar.
Markets == {"quiet", "breakout", "listing"}

\* The rows the provider holds for the k-th instrument of market m once t
\* more bars have closed; the last row is the bar still open.  With t = 0
\* the latest closed bar of a moving instrument is the first bar of its
\* move.
Tape(m, k, t) ==
    IF m # "quiet" /\ k = 2
        THEN MkSeries(21 + t, 300, 0, 2 + t, 4, 1, 0)
    ELSE IF m # "quiet" /\ k = 5
        THEN MkSeries(21 + t, 300, 0, 2 + t, -4, 0, 1)
    ELSE IF m = "listing" /\ k = 3
        THEN MkSeries(1 + t, 300, 0, 0, 0, 0, 0)
    ELSE MkSeries(21 + t, 300, 0, 0, 0, 0, 0)

\* The frames the loop model's provider can hand to analyze_symbol, and
\* the outcome of analyze_symbol on each, evaluated once.
Frames ==
    { fetch_klines(Tape(m, k, t)) :
        m \in Markets, k \in 1..Len(FIXED_SYMBOLS), t \in 0..MaxBarCloses }

AnalysisTable ==
    { << k, d, analyze_symbol(FIXED_SYMBOLS[k], d) >> :
        k \in 1..Len(FIXED_SYMBOLS), d \in Frames }

\* analyze_symbol(FIXED_SYMBOLS[k]) once its fetch returned the frame d.
Analyzed(k, d) ==
    IF d \in Frames
        THEN (CHOOSE e \in AnalysisTable : e[1] = k /\ e[2] = d)[3]
        ELSE analyze_symbol(FIXED_SYMBOLS[k], d)

\* ------------------------------------------------------------------------
\* State
\* ------------------------------------------------------------------------

VARIABLES
    pc,               \* where the process is (see the actions)
    load_dotenv,      \* whether the name load_dotenv is bound at line 27
    TELEGRAM_TOKEN,   \* whether the variable is set (truthy)
    TELEGRAM_CHAT_ID, \* whether the variable is set (truthy)
    exit_code,        \* the exit status, NotExited while the process runs
    SHUTDOWN,         \* the module-level flag
    idx,              \* position of the for loop in FIXED_SYMBOLS
    cur_df,           \* the frame of the analyze_symbol call in progress
    res,              \* the outcome of the last analyze_symbol call
    sent,             \* the messages handed to send_telegram, in order
    lastSend,         \* how the last delivery ended: "none", "ok", "failed"
    market,           \* the market the provider serves
    clock,            \* bars closed since the process started
    cycle,            \* passes of the while loop started so far
    errors,           \* "Erro no ciclo principal" log records, by cycle
    signals,          \* termination requests delivered so far
    flagAt            \* pc at the first termination request, or "never"

vars ==
    << pc, load_dotenv, TELEGRAM_TOKEN, TELEGRAM_CHAT_ID, exit_code, SHUTDOWN, idx, cur_df, res,
       sent, lastSend, market, clock, cycle, errors, signals, flagAt >>

NotExited == -1

NumSymbols == Len(FIXED_SYMBOLS)

\* A cycle is in progress: an analyze_symbol call or an alert is under way.
InCycle == {"fetch", "analyze", "alert"}

\* The loop sleeps: time.sleep(15) or time.sleep(POLL_SECONDS), up to the
\* test of the while condition that follows it.
Sleeping == {"warmup", "sleep"}

\* A message of the notification channel.  cycle and bar are not part of
\* the text: they record the cycle in which the message was handed over
\* and the open time of the latest closed bar of the frame it is about.
Message(kind, r, bar) ==
    [kind |-> kind, symbol |-> r.symbol, side |-> r.side, price |-> r.price,
     adx |-> r.adx, cycle |-> cycle, bar |-> bar]

\* send_telegram without its try/except: a failed delivery raises.
send_telegram_unguarded(ok) == IF ok THEN "returned" ELSE "raised"

\* send_telegram: the POST and raise_for_status() run inside try/except
\* Exception, so a failed delivery is logged and the call returns.
send_telegram(ok) == "returned"

\* A handler that lets the exception end the process.
except_reraise == "exited"

\* What an exception raised inside the try block of main leads to: the
\* except clause logs it and control reaches time.sleep(POLL_SECONDS).
except_Exception == "sleep"

\* A loop that never reads the flag.
while_True(flag) == TRUE

\* The condition of `while not SHUTDOWN`.
while_not_SHUTDOWN(flag) == ~flag

\* A for loop that starts over after the last symbol instead of ending.
ForAgain(i) ==
    IF i < NumSymbols THEN [pc |-> "fetch", idx |-> i + 1]
    ELSE [pc |-> "fetch", idx |-> 1]

\* The for loop's step after the body ran for FIXED_SYMBOLS[i]: the next
\* symbol, or past the loop to time.sleep(POLL_SECONDS).
ForNext(i) ==
    IF i < NumSymbols THEN [pc |-> "fetch", idx |-> i + 1]
    ELSE [pc |-> "sleep", idx |-> i]

\* The file calls load_dotenv() at line 27 and imports it nowhere: as it
\* stands the name is unbound (FALSE) and the call raises NameError.  TRUE
\* is the file run with the import of the local version it was made from,
\* which every line after line 27 presupposes.
Init ==
    /\ pc = "boot"
    /\ load_dotenv \in BOOLEAN
    /\ TELEGRAM_TOKEN \in BOOLEAN
    /\ TELEGRAM_CHAT_ID \in BOOLEAN
    /\ exit_code = NotExited
    /\ SHUTDOWN = FALSE
    /\ idx = 0
    /\ cur_df = << >>
    /\ res = Unset
    /\ sent = << >>
    /\ lastSend = "none"
    /\ market \in Markets
    /\ clock = 0
    /\ cycle = 0
    /\ errors = << >>
    /\ signals = 0
    /\ flagAt = "never"

\* ------------------------------------------------------------------------
\* Actions
\* ------------------------------------------------------------------------

Delivery(ok) == IF ok THEN "ok" ELSE "failed"

\* Module level, lines 27-76 and 199-208: load_dotenv() is called, which
\* ends the process with an uncaught NameError (status 1) if the name is
\* unbound; the credentials are read, the process exits with status 1 if
\* one is missing, otherwise the handlers are installed and main() is
\* entered.
Startup ==
    /\ pc = "boot"
    /\ IF ~load_dotenv
          THEN pc' = "exited" /\ exit_code' = 1
       ELSE IF ~TELEGRAM_TOKEN \/ ~TELEGRAM_CHAT_ID
          THEN pc' = "exited" /\ exit_code' = 1
          ELSE pc' = "main" /\ UNCHANGED exit_code
    /\ UNCHANGED << load_dotenv, TELEGRAM_TOKEN, TELEGRAM_CHAT_ID, SHUTDOWN, idx, cur_df, res, sent,
                    lastSend, market, clock, cycle, errors, signals, flagAt >>

\* main without its first line: the warm-up sleep begins and no start
\* notification is handed to send_telegram.
main_without_started ==
    /\ pc = "main"
    /\ pc' = "warmup"
    /\ UNCHANGED << load_dotenv, TELEGRAM_TOKEN, TELEGRAM_CHAT_ID, exit_code, SHUTDOWN,
                    idx, cur_df, res, sent, lastSend, market, clock, cycle, errors,
                    signals, flagAt >>

\* Line 215: send_telegram("Scanner iniciado"), then time.sleep(15) begins.
\* An exception here is outside every try block and ends the process.
SendStarted ==
    /\ pc = "main"
    /\ \E ok \in BOOLEAN :
          /\ lastSend' = Delivery(ok)
          /\ IF send_telegram(ok) = "returned"
                THEN pc' = "warmup" /\ UNCHANGED exit_code
                ELSE pc' = "exited" /\ exit_code' = 1
    /\ sent' = Append(sent, Message("started", NoSignal, 0))
    /\ UNCHANGED << load_dotenv, TELEGRAM_TOKEN, TELEGRAM_CHAT_ID, SHUTDOWN, idx, cur_df, res,
                    market, clock, cycle, errors, signals, flagAt >>

\* Lines 216/236 and 218: the sleep ends and `while not SHUTDOWN` is
\* tested; either the for loop starts at the first symbol, or main logs
\* and returns and the process exits with status 0.
LoopTest ==
    /\ pc \in Sleeping
    /\ IF ~while_not_SHUTDOWN(SHUTDOWN)
          THEN /\ pc' = "exited"
               /\ exit_code' = 0
               /\ UNCHANGED << idx, cycle >>
          ELSE /\ cycle < MaxCycles
               /\ pc' = "fetch"
               /\ idx' = 1
               /\ cycle' = cycle + 1
               /\ UNCHANGED exit_code
    /\ UNCHANGED << load_dotenv, TELEGRAM_TOKEN, TELEGRAM_CHAT_ID, SHUTDOWN, cur_df, res, sent,
                    lastSend, market, clock, errors, signals, flagAt >>

\* Lines 178 and 109-121: the request of analyze_symbol(FIXED_SYMBOLS[idx])
\* returns a payload and fetch_klines builds the frame.
FetchReturns ==
    /\ pc = "fetch"
    /\ cur_df' = fetch_klines(Tape(market, idx, clock))
    /\ res' = Unset
    /\ pc' = "analyze"
    /\ UNCHANGED << load_dotenv, TELEGRAM_TOKEN, TELEGRAM_CHAT_ID, exit_code, SHUTDOWN, idx, sent,
                    lastSend, market, clock, cycle, errors, signals, flagAt >>

\* Lines 109-110 and 233-234: the request fails (network error, timeout,
\* non-2xx status); the exception leaves analyze_symbol and the for loop
\* and is caught by the except clause of main.
FetchRaises ==
    /\ pc = "fetch"
    /\ pc' = except_Exception
    /\ errors' = Append(errors, cycle)
    /\ UNCHANGED << load_dotenv, TELEGRAM_TOKEN, TELEGRAM_CHAT_ID, exit_code, SHUTDOWN, idx, cur_df, res,
                    sent, lastSend, market, clock, cycle, signals, flagAt >>

\* Lines 179-193 and 221-231: the indicators and the filters run on the
\* frame; a signal is rendered and handed to send_telegram.
Analyze ==
    /\ pc = "analyze"
    /\ LET r == Analyzed(idx, cur_df)
       IN  /\ res' = r
           /\ IF r.kind = "raise"
                 THEN /\ pc' = except_Exception
                      /\ errors' = Append(errors, cycle)
                      /\ UNCHANGED << idx, sent >>
               ELSE IF r.kind = "signal"
                 THEN /\ pc' = "alert"
                      /\ sent' = Append(sent, Message("alert", r, Last(cur_df).open_time))
                      /\ UNCHANGED << idx, errors >>
               ELSE /\ pc' = ForNext(idx).pc
                    /\ idx' = ForNext(idx).idx
                    /\ UNCHANGED << sent, errors >>
    /\ UNCHANGED << load_dotenv, TELEGRAM_TOKEN, TELEGRAM_CHAT_ID, exit_code, SHUTDOWN, cur_df,
                    lastSend, market, clock, cycle, signals, flagAt >>

\* Lines 231-232: send_telegram(msg) returns and the for loop goes on.
AlertReturns ==
    /\ pc = "alert"
    /\ \E ok \in BOOLEAN :
          /\ lastSend' = Delivery(ok)
          /\ IF send_telegram(ok) = "returned"
                THEN /\ pc' = ForNext(idx).pc
                     /\ idx' = ForNext(idx).idx
                     /\ UNCHANGED errors
                ELSE /\ pc' = except_Exception
                     /\ errors' = Append(errors, cycle)
                     /\ UNCHANGED idx
    /\ UNCHANGED << load_dotenv, TELEGRAM_TOKEN, TELEGRAM_CHAT_ID, exit_code, SHUTDOWN, cur_df, res,
                    sent, market, clock, cycle, signals, flagAt >>

\* Lines 201-208: SIGTERM or SIGINT arrives once the handlers are
\* installed.  Python runs shutdown_handler in the main thread, between
\* two bytecodes or when the blocking call (the sleep, the HTTP request) is
\* interrupted; the call is then resumed, so the process is where it was.
\* An exception leaving the handler would surface at that point of main.
shutdown_handler ==
    /\ pc \notin {"boot", "exited"}
    /\ signals < MaxSignals
    /\ signals' = signals + 1
    /\ SHUTDOWN' = TRUE
    /\ flagAt' = IF flagAt = "never" THEN pc ELSE flagAt
    /\ sent' = Append(sent, Message("stopped", NoSignal, 0))
    /\ \E ok \in BOOLEAN :
          /\ lastSend' = Delivery(ok)
          /\ IF send_telegram(ok) = "returned"
                THEN UNCHANGED << pc, exit_code, errors >>
                ELSE IF pc \in InCycle
                       THEN /\ pc' = except_Exception
                            /\ errors' = Append(errors, cycle)
                            /\ UNCHANGED exit_code
                       ELSE /\ pc' = "exited"
                            /\ exit_code' = 1
                            /\ UNCHANGED errors
    /\ UNCHANGED << load_dotenv, TELEGRAM_TOKEN, TELEGRAM_CHAT_ID, idx, cur_df, res, market, clock,
                    cycle >>

\* The environment: a 15-minute bar closes.
BarCloses ==
    /\ pc \notin {"boot", "exited"}
    /\ clock < MaxBarCloses
    /\ clock' = clock + 1
    /\ UNCHANGED << pc, load_dotenv, TELEGRAM_TOKEN, TELEGRAM_CHAT_ID, exit_code, SHUTDOWN, idx, cur_df,
                    res, sent, lastSend, market, cycle, errors, signals, flagAt >>

Next ==
    \/ Startup
    \/ SendStarted
    \/ LoopTest
    \/ FetchReturns
    \/ FetchRaises
    \/ Analyze
    \/ AlertReturns
    \/ shutdown_handler
    \/ BarCloses

Spec == Init /\ [][Next]_vars

\* The loop under the scheduling the code has: requests.get and
\* requests.post carry timeout=10 and so return or raise, the indicator
\* computation and time.sleep end, and the interpreter goes on to the next
\* statement.
Fairness ==
    /\ WF_vars(Startup)
    /\ WF_vars(SendStarted)
    /\ WF_vars(LoopTest)
    /\ WF_vars(FetchReturns \/ FetchRaises)
    /\ WF_vars(Analyze)
    /\ WF_vars(AlertReturns)

\* A run that gets as far as main: the name of line 27 is bound and both
\* credentials are set; the market is the one in which an analysis
\* raises, returns None and returns a signal.
InitLive ==
    /\ Init
    /\ load_dotenv
    /\ TELEGRAM_TOKEN
    /\ TELEGRAM_CHAT_ID
    /\ market = "listing"

SpecLive == InitLive /\ [][Next]_vars /\ Fairness

\* analyze_symbol as a function: one call on each frame of PureInputs.
InitPure ==
    /\ pc = "analyze"
    /\ load_dotenv = TRUE
    /\ TELEGRAM_TOKEN = TRUE
    /\ TELEGRAM_CHAT_ID = TRUE
    /\ exit_code = NotExited
    /\ SHUTDOWN = FALSE
    /\ idx = 1
    /\ cur_df \in PureInputs
    /\ res = Unset
    /\ sent = << >>
    /\ lastSend = "none"
    /\ market = "quiet"
    /\ clock = 0
    /\ cycle = 1
    /\ errors = << >>
    /\ signals = 0
    /\ flagAt = "never"

SpecPure == InitPure /\ [][Analyze]_vars

\* fetch_klines as a function: cur_df holds the frame built from the
\* response at line 116, one frame of PureInputs a run, and the step is
\* the return at line 121.
InitFetch ==
    /\ pc = "fetch"
    /\ load_dotenv = TRUE
    /\ TELEGRAM_TOKEN = TRUE
    /\ TELEGRAM_CHAT_ID = TRUE
    /\ exit_code = NotExited
    /\ SHUTDOWN = FALSE
    /\ idx = 1
    /\ cur_df \in PureInputs
    /\ res = Unset
    /\ sent = << >>
    /\ lastSend = "none"
    /\ market = "quiet"
    /\ clock = 0
    /\ cycle = 1
    /\ errors = << >>
    /\ signals = 0
    /\ flagAt = "never"

ReturnFrame ==
    /\ pc = "fetch"
    /\ cur_df' = fetch_klines(cur_df)
    /\ pc' = "analyze"
    /\ UNCHANGED << load_dotenv, TELEGRAM_TOKEN, TELEGRAM_CHAT_ID, exit_code, SHUTDOWN,
                    idx, res, sent, lastSend, market, clock, cycle, errors, signals,
                    flagAt >>

SpecFetch == InitFetch /\ [][ReturnFrame]_vars

\* ------------------------------------------------------------------------
\* Properties
\* ------------------------------------------------------------------------

\* Positions of sent that hold an alert.
Alerts == { i \in DOMAIN sent : sent[i].kind = "alert" }

\* Positions of sent that hold a "stopped" notification.
Stops == { i \in DOMAIN sent : sent[i].kind = "stopped" }

\* C1: within one cycle a failing instrument does not keep the others from
\* being fetched and analysed: whenever a cycle has ended and the loop
\* sleeps, the for loop has been through every symbol of FIXED_SYMBOLS.
C1_FailureIsolatedPerInstrument ==
    pc = "sleep" => idx = NumSymbols

\* C2: the "stopped" notification is never sent while a cycle is in
\* progress, that is while an analyze_symbol call or an alert is under way.
C2_StopOnlyBetweenIterations ==
    [][(Len(sent') = Len(sent) + 1 /\ sent'[Len(sent')].kind = "stopped")
          => pc \notin InCycle]_vars

\* C3: when the flag is first set while the loop sleeps (warm-up or poll
\* sleep), the stop notification has been sent, the loop never starts
\* another cycle (no fetch, no analysis and no alert follows), and the
\* only way on is the normal exit.
C3_FlagDuringSleepStopsLoop ==
    flagAt \in Sleeping =>
        /\ SHUTDOWN
        /\ Stops # {}
        /\ pc \in Sleeping \cup {"exited"}
        /\ pc = "exited" => exit_code = 0
        /\ \A i \in Stops : \A j \in Alerts : j < i

\* C3, witness: the flag was set during a poll sleep and the process has
\* exited.
C3_Witness ==
    flagAt = "sleep" /\ pc = "exited" /\ cycle >= 1

\* C4: a termination request that arrives while a cycle is in progress
\* does not cut the cycle short: when that cycle has ended, every symbol
\* of FIXED_SYMBOLS has been fetched and analysed.
C4_CycleRunsToItsEnd ==
    (flagAt \in InCycle /\ pc \in {"sleep", "exited"}) => idx = NumSymbols

\* C5: over the whole run at most one alert is sent for an instrument and
\* a latest closed bar.
C5_OneAlertPerEdge ==
    \A i \in Alerts : \A j \in Alerts :
        (sent[i].symbol = sent[j].symbol /\ sent[i].bar = sent[j].bar) => i = j

\* C5, as amended: an analysis that yields a signal is alerted exactly once
\* in its cycle (when the analysis has returned a signal, sent holds one
\* alert for that instrument and cycle), and no instrument is alerted
\* twice in one cycle; cycles that fetch the same series repeat the alert.
C5_OneAlertPerSignalAndCycle ==
    /\ \A i \in Alerts : \A j \in Alerts :
          (sent[i].symbol = sent[j].symbol /\ sent[i].cycle = sent[j].cycle) => i = j
    /\ (res.kind = "signal" /\ pc = "alert") =>
          Cardinality({ i \in Alerts : /\ sent[i].symbol = res.symbol
                                        /\ sent[i].cycle = cycle
                                        /\ sent[i].side = res.side }) = 1

\* C5, witness: two cycles fetched the same series of an instrument and
\* each of them sent the alert for the same latest closed bar.
C5_Witness ==
    \E i \in Alerts : \E j \in Alerts :
        /\ sent[i].symbol = sent[j].symbol
        /\ sent[i].bar = sent[j].bar
        /\ sent[i].cycle < sent[j].cycle

\* The three admission filters as the claim states them, on the latest bar
\* of frame d: width >= minimum, strength >= minimum, crossover fired.
WidthPasses(d) == FGe(Last(bollinger_bands(Col(d, "close"))), WidthMinSq)

StrengthPasses(d) == FGe(Last(adx(d)), ADX_MIN)

CrossFired(d) == triple_sma_cross(d) \in {"LONG", "SHORT"}

\* C6: analyze_symbol yields a signal if and only if the Bollinger width at
\* the latest bar is >= the minimum, the ADX at the latest bar is >= the
\* minimum (both inclusive) and the crossover rule returned LONG or SHORT;
\* the signal's direction is the crossover's.
C6_SignalIffAllFilters ==
    res.kind \in {"none", "signal"} =>
        /\ res.kind = "signal" <=>
              (WidthPasses(cur_df) /\ StrengthPasses(cur_df) /\ CrossFired(cur_df))
        /\ res.kind = "signal" => res.side = triple_sma_cross(cur_df)

\* C6, witness: a signal whose Bollinger width is exactly the minimum.
C6_Witness ==
    /\ res.kind = "signal"
    /\ Last(bollinger_bands(Col(cur_df, "close"))) = WidthMinSq

\* fast > medium > slow at bar i of the closes c, on the sums of the last
\* 3, 8 and 20 closes (a/3 > b/8 iff 8a > 3b); it does not hold where one
\* of the averages is not defined yet.
FastAbove(c, i) ==
    /\ i >= 20
    /\ 8 * SumRange(c, i - 2, i) > 3 * SumRange(c, i - 7, i)
    /\ 20 * SumRange(c, i - 7, i) > 8 * SumRange(c, i - 19, i)

\* fast < medium < slow at bar i.
FastBelow(c, i) ==
    /\ i >= 20
    /\ 8 * SumRange(c, i - 2, i) < 3 * SumRange(c, i - 7, i)
    /\ 20 * SumRange(c, i - 7, i) < 8 * SumRange(c, i - 19, i)

\* C7: on a series of at least 3 bars triple_sma_cross returns LONG exactly
\* when fast > medium > slow holds at the latest bar and did not hold at
\* the bar before, SHORT exactly when fast < medium < slow holds at the
\* latest bar and did not hold at the bar before, and None otherwise.
C7_CrossoverFiresOnTheEdgeOnly ==
    (res.kind # "unset" /\ Len(cur_df) >= 3) =>
        LET c == Col(cur_df, "close")
            n == Len(cur_df)
            edge == IF FastAbove(c, n) /\ ~FastAbove(c, n - 1) THEN "LONG"
                    ELSE IF FastBelow(c, n) /\ ~FastBelow(c, n - 1) THEN "SHORT"
                    ELSE "None"
        IN  /\ triple_sma_cross(cur_df) = edge
            /\ res.kind = "signal" => res.side = edge

\* C7, witness: the ordering flipped from fast < medium < slow at the bar
\* before to fast > medium > slow at the latest bar, and LONG came out.
C7_Witness ==
    /\ res.kind = "signal"
    /\ res.side = "LONG"
    /\ Len(cur_df) >= 21
    /\ FastBelow(Col(cur_df, "close"), Len(cur_df) - 1)
    /\ FastAbove(Col(cur_df, "close"), Len(cur_df))

\* C8: an exception in a cycle does not end the loop.  While the cycle
\* that logged the error is the current one the loop sleeps (or has left
\* through the normal exit after a termination request); the poll sleep
\* ends in the next cycle unless the flag is set; and a cycle starts only
\* out of a sleep.
C8_FailedCycleDoesNotEndTheLoop ==
    /\ []((errors # << >> /\ errors[Len(errors)] = cycle) =>
            \/ pc = "sleep"
            \/ pc = "exited" /\ SHUTDOWN /\ exit_code = 0)
    /\ [][(pc = "sleep" /\ pc' # "sleep") =>
            IF SHUTDOWN THEN pc' = "exited" /\ exit_code' = 0
            ELSE pc' = "fetch" /\ idx' = 1 /\ cycle' = cycle + 1]_vars
    /\ [][cycle' # cycle => pc \in Sleeping]_vars

\* C8, witness: a cycle runs after a cycle that failed.
C8_Witness ==
    /\ errors # << >>
    /\ errors[Len(errors)] < cycle
    /\ pc = "fetch"
    /\ ~SHUTDOWN

\* C9: a failed delivery is not raised to the caller.  After a failed
\* start notification the warm-up sleep begins, after a failed stop
\* notification the interrupted code goes on where it was, and after a
\* failed alert the for loop goes on with the next symbol.
C9_DeliveryFailureIsSwallowed ==
    [][lastSend' = "failed" =>
        /\ (Len(sent') > Len(sent) /\ sent'[Len(sent')].kind = "started") =>
              (pc' = "warmup" /\ exit_code' = NotExited)
        /\ (Len(sent') > Len(sent) /\ sent'[Len(sent')].kind = "stopped") =>
              (pc' = pc /\ idx' = idx /\ errors' = errors /\ exit_code' = exit_code)
        /\ (pc = "alert" /\ pc' # "alert") =>
              (pc' = ForNext(idx).pc /\ idx' = ForNext(idx).idx /\ errors' = errors)
      ]_vars

\* C9, witness: the delivery of an alert failed and the loop is fetching
\* the next symbol.
C9_Witness ==
    /\ lastSend = "failed"
    /\ pc = "fetch"
    /\ idx >= 2
    /\ sent # << >>
    /\ sent[Len(sent)].kind = "alert"

\* C10: insufficient history is a no-signal outcome: on every frame of
\* fewer than 3 bars, the empty one included, analyze_symbol returns None
\* without raising.
C10_ShortHistoryIsNoSignal ==
    (res.kind # "unset" /\ Len(cur_df) < 3) => res.kind = "none"

\* The start notifications among the messages handed to send_telegram.
Starts == { i \in DOMAIN sent : sent[i].kind = "started" }

\* C11: the stop is announced once: over a run at most one "stopped"
\* notification is sent, however many termination requests arrive.
C11_StopAnnouncedOnce ==
    Cardinality(Stops) <= 1

\* C13: the start notification is attempted first, then the warm-up sleep
\* runs, and only then the first cycle begins: whenever a fetch, an
\* analysis or an alert is under way, or a cycle has run, the start
\* notification was handed over before every alert; the warm-up sleep is
\* entered by the start notification only and the first cycle starts out
\* of the warm-up sleep only.
C13_StartedThenWarmupThenCycle ==
    /\ []((pc \in InCycle \/ cycle >= 1) =>
            /\ cycle >= 1
            /\ Starts # {}
            /\ \A i \in Starts : \A j \in Alerts : i < j)
    /\ [][(pc # "warmup" /\ pc' = "warmup") =>
            (pc = "main" /\ sent' # << >> /\ sent'[Len(sent')].kind = "started")]_vars
    /\ [][(cycle = 0 /\ cycle' # 0) => (pc = "warmup" /\ Starts # {})]_vars
    /\ [][(pc \notin InCycle /\ pc' \in InCycle) => pc \in Sleeping]_vars

\* C13, witness: the first fetch of the first cycle is about to be made,
\* after a start notification whose delivery failed.
C13_Witness ==
    /\ pc = "fetch"
    /\ cycle = 1
    /\ idx = 1
    /\ sent # << >>
    /\ sent[1].kind = "started"
    /\ lastSend = "failed"

\* C14: the process ends with a non-zero status, no notification and no
\* cycle when a credential is missing, and with both credentials it ends
\* only after a termination request, with status zero.
C14_ExitStatusFollowsCredentials ==
    pc = "exited" =>
        IF TELEGRAM_TOKEN /\ TELEGRAM_CHAT_ID
            THEN exit_code = 0 /\ SHUTDOWN
            ELSE exit_code # 0 /\ exit_code # NotExited /\ sent = << >> /\ cycle = 0

\* C19: every "stopped" notification comes after a "started" one.
C19_StartedBeforeStopped ==
    \A i \in Stops : \E j \in Starts : j < i

\* C12: once a termination request has set the flag, the process
\* eventually reaches the end of main and exits with status 0, wherever
\* the request found it.
C12_CancelLeadsToExit ==
    SHUTDOWN ~> (pc = "exited" /\ exit_code = 0)

\* C12, witness: the request arrived in the middle of a cycle and the
\* process has reached the end of main.
C12_Witness ==
    /\ flagAt \in InCycle
    /\ pc = "exited"
    /\ exit_code = 0

\* C15: the frame fetch_klines returns is the payload without its last
\* row: of a payload of n >= 1 rows exactly the first n - 1 rows, in the
\* same order, and of an empty payload the empty frame.
C15_OpenBarDropped ==
    [][(pc = "fetch" /\ pc' = "analyze") =>
        /\ DOMAIN cur_df' = 1..(IF Len(cur_df) = 0 THEN 0 ELSE Len(cur_df) - 1)
        /\ \A i \in DOMAIN cur_df' : cur_df'[i] = cur_df[i]]_vars

\* C15, witness: a payload of MaxBars rows was returned as the frame of
\* its first MaxBars - 1 rows.
C15_Witness ==
    /\ pc = "analyze"
    /\ res = Unset
    /\ Len(cur_df) = MaxBars - 1
    /\ cur_df[1].open_time = 1
    /\ cur_df[Len(cur_df)].open_time = MaxBars - 1

\* plusDM and minusDM at bar i of the frame d, as the spec of adx defines
\* them, and their sum over the ADX_PERIOD bars up to i: the numerator of
\* plusDI + minusDI.
UpMove(d, i) == d[i].high - d[i - 1].high

DownMove(d, i) == d[i - 1].low - d[i].low

PlusDM(d, i) ==
    IF i > 1 /\ UpMove(d, i) > DownMove(d, i) /\ UpMove(d, i) > 0
        THEN UpMove(d, i) ELSE 0

MinusDM(d, i) ==
    IF i > 1 /\ DownMove(d, i) > UpMove(d, i) /\ DownMove(d, i) > 0
        THEN DownMove(d, i) ELSE 0

RECURSIVE MovementSum(_, _, _)
MovementSum(d, lo, hi) ==
    IF lo > hi THEN 0
    ELSE PlusDM(d, hi) + MinusDM(d, hi) + MovementSum(d, lo, hi - 1)

\* The average true range is zero at bar i.
AtrIsZero(d, i) ==
    i >= ADX_PERIOD /\ SumRange(true_range(d), i - ADX_PERIOD + 1, i) = 0

\* plusDI + minusDI is zero at bar i.
DiSumIsZero(d, i) ==
    i >= ADX_PERIOD /\ ~AtrIsZero(d, i) /\ MovementSum(d, i - ADX_PERIOD + 1, i) = 0

\* C16: at every bar adx is a number (neither NaN nor infinite) that is
\* >= 0, and it is exactly 0 where the average true range or
\* plusDI + minusDI is zero and where fewer than 2 * ADX_PERIOD - 1 bars
\* are there.
C16_AdxDefinedAndNonNegative ==
    res.kind # "unset" =>
        LET a == adx(cur_df)
        IN  \A i \in DOMAIN cur_df :
                /\ IsNum(a[i])
                /\ FGe(a[i], Zero)
                /\ (i < 2 * ADX_PERIOD - 1 \/ AtrIsZero(cur_df, i) \/ DiSumIsZero(cur_df, i))
                      => a[i] = Zero

\* C16, witness: adx is 0 at a bar that has enough history and whose
\* plusDI + minusDI is zero.
C16_Witness ==
    /\ res.kind # "unset"
    /\ \E i \in DOMAIN cur_df :
          /\ i >= 2 * ADX_PERIOD - 1
          /\ DiSumIsZero(cur_df, i)
          /\ adx(cur_df)[i] = Zero

\* dx with 0 in the place of a zero denominator plusDI + minusDI.
DxZeroFilled(d) ==
    [i \in DOMAIN d |-> IF DiSumIsZero(d, i) THEN Zero ELSE adx_dx(d)[i]]

\* C17: at the latest bar of a frame with enough history adx is the mean
\* of dx over the last ADX_PERIOD bars, where dx counts as 0 at a bar whose
\* plusDI + minusDI is zero.
C17_ZeroDenominatorCountsAsZero ==
    (res.kind # "unset" /\ Len(cur_df) >= 2 * ADX_PERIOD - 1) =>
        Last(adx(cur_df)) = fillna0(Last(FRollMean(DxZeroFilled(cur_df), ADX_PERIOD)))

\* The sum of the last BOLLINGER_PERIOD closes of the frame d: the midline
\* times the period.
MidlineSum(d) ==
    SumRange(Col(d, "close"), Len(d) - BOLLINGER_PERIOD + 1, Len(d))

\* C18: no signal comes out of a frame whose midline at the latest bar is
\* absent (fewer than BOLLINGER_PERIOD bars) or zero; whenever a signal
\* comes out the midline is defined and > 0 and the width is a finite
\* number >= the minimum.
C18_UndefinedWidthAdmitsNoSignal ==
    res.kind # "unset" =>
        /\ (Len(cur_df) < BOLLINGER_PERIOD \/ MidlineSum(cur_df) = 0)
              => res.kind # "signal"
        /\ res.kind = "signal" =>
              /\ Len(cur_df) >= BOLLINGER_PERIOD
              /\ MidlineSum(cur_df) > 0
              /\ IsNum(Last(bollinger_bands(Col(cur_df, "close"))))
              /\ FGe(Last(bollinger_bands(Col(cur_df, "close"))), WidthMinSq)

\* C18, witness: the midline is zero, the width NaN, the width filter let
\* the frame through, adx is above its minimum, and None was returned.
C18_Witness ==
    /\ res.kind = "none"
    /\ Len(cur_df) >= BOLLINGER_PERIOD
    /\ MidlineSum(cur_df) = 0
    /\ IsNaN(Last(bollinger_bands(Col(cur_df, "close"))))
    /\ ~FLt(Last(bollinger_bands(Col(cur_df, "close"))), WidthMinSq)
    /\ FGe(Last(adx(cur_df)), ADX_MIN)

====
